---- MODULE Spec2Model ----
(***************************************************************************)
(* Model of Temp_gauge.py: the GaugeApp widget.                            *)
(*                                                                         *)
(* Representation.                                                         *)
(*  - A Python float is a record [k, n]: k = "fin" with n the number in    *)
(*    tenths (25.0 is n = 250), or k = "nan" / "inf" / "ninf" with n = 0.  *)
(*    Comparisons follow IEEE-754: every ordered comparison with a NaN is  *)
(*    false.                                                               *)
(*  - A text is a sequence of one-character strings.                       *)
(*  - An angle is a float record whose n is in thousandths of a degree.    *)
(*  - Lengths are in sixtieths of a pixel, so that width / 2,              *)
(*    height * 0.65 and min(width, height) / 3 are integers.               *)
(*  - A canvas coordinate base + rho * fn(ang) is the record               *)
(*    [base, rho, ang, fn]; cos and sin are left uninterpreted.            *)
(*  - The canvas is the sequence of items the program created since the    *)
(*    last delete("all"), each with the arguments the program passed.      *)
(*    Tk 8.6 accepts a NaN coordinate passed as a double without raising,  *)
(*    so every create_* call completes.                                    *)
(***************************************************************************)
EXTENDS Integers, Sequences, FiniteSets, TLC

\* ----- Constants (Temp_gauge.py lines 6-48) -----
MIN_VALUE == 0
MAX_VALUE == 100
NORMAL_MIN == 20
NORMAL_MAX == 30
GAUGE_SIZE_RATIO == 3
TICK_INTERVAL == 20
TICK_LENGTH == 10
LABEL_OFFSET == 15
NEEDLE_MARGIN == 25
VALUE_TEXT_OFFSET == 40
SHADOW_OFFSET == 4
ARC_WIDTH == 6
CENTER_CIRCLE_RADIUS == 8
SHADOW_THICKNESS == 8
FONT_MAIN == "Helvetica 12 bold"
FONT_LABEL == "Helvetica 10"
FONT_DISPLAY == "Helvetica 16 bold"
COLOR_GAUGE_OUTLINE == "#444"
COLOR_TICK == "#333"
COLOR_TEXT == "#222"
COLOR_SHADOW == "#ddd"
COLOR_NEEDLE_COLD == "#0077b6"
COLOR_NEEDLE_NORMAL == "#2d6a4f"
COLOR_NEEDLE_HOT == "#d90429"

\* ----- Bounds of the model -----
MaxWidth == 3
MaxHeight == 3

\* ----- Floats -----
Fin(n) == [k |-> "fin", n |-> n]
NaN == [k |-> "nan", n |-> 0]
PosInf == [k |-> "inf", n |-> 0]
NegInf == [k |-> "ninf", n |-> 0]

\* An int constant of the program as a float (in tenths).
OfInt(i) == Fin(10 * i)

\* a < b on floats
FloatLt(a, b) ==
  IF a.k = "nan" \/ b.k = "nan" THEN FALSE
  ELSE IF a.k = "ninf" THEN b.k # "ninf"
  ELSE IF a.k = "inf" THEN FALSE
  ELSE IF b.k = "ninf" THEN FALSE
  ELSE IF b.k = "inf" THEN TRUE
  ELSE a.n < b.n

\* a > b on floats
FloatGt(a, b) == FloatLt(b, a)

\* ----- Texts -----
Digits == <<"0", "1", "2", "3", "4", "5", "6", "7", "8", "9">>
DigitSet == {Digits[i] : i \in 1..Len(Digits)}
DigitVal(c) == (CHOOSE i \in 1..Len(Digits) : Digits[i] = c) - 1

Lower(c) ==
  CASE c = "I" -> "i" [] c = "N" -> "n" [] c = "F" -> "f" [] c = "A" -> "a"
    [] c = "T" -> "t" [] c = "Y" -> "y" [] OTHER -> c

LowerText(s) == [i \in 1..Len(s) |-> Lower(s[i])]

RECURSIVE LStrip(_)
LStrip(s) == IF s # <<>> /\ Head(s) = " " THEN LStrip(Tail(s)) ELSE s

RECURSIVE RStrip(_)
RStrip(s) ==
  IF s # <<>> /\ s[Len(s)] = " " THEN RStrip(SubSeq(s, 1, Len(s) - 1)) ELSE s

Strip(s) == RStrip(LStrip(s))

RECURSIVE DigitsToInt(_)
DigitsToInt(s) ==
  IF s = <<>> THEN 0
  ELSE 10 * DigitsToInt(SubSeq(s, 1, Len(s) - 1)) + DigitVal(s[Len(s)])

RECURSIVE IntToDigits(_)
IntToDigits(n) ==
  IF n < 10 THEN <<Digits[n + 1]>>
  ELSE IntToDigits(n \div 10) \o <<Digits[(n % 10) + 1]>>

AllDigits(s) == \A i \in 1..Len(s) : s[i] \in DigitSet

ValueError == [k |-> "ValueError", n |-> 0]

\* float(text) for the texts of the grammar  ws [sign] (inf | infinity | nan |
\* digits [. digits] | . digits) ws; anything else raises ValueError.  Texts
\* with an exponent or an underscore are outside the modelled fragment.  A
\* finite result is kept to one fractional digit, and negative zero is
\* identified with zero.
ParseDecimal(neg, body) ==
  LET dots == {i \in 1..Len(body) : body[i] = "."}
      dot == IF dots = {} THEN Len(body) + 1 ELSE CHOOSE i \in dots : TRUE
      ip == SubSeq(body, 1, dot - 1)
      fp == SubSeq(body, dot + 1, Len(body))
      mag == 10 * DigitsToInt(ip) + (IF fp = <<>> THEN 0 ELSE DigitVal(fp[1]))
  IN IF Cardinality(dots) > 1 \/ ~AllDigits(ip) \/ ~AllDigits(fp)
        \/ (ip = <<>> /\ fp = <<>>)
     THEN ValueError
     ELSE Fin(IF neg THEN 0 - mag ELSE mag)

ParseFloat(text) ==
  LET t == Strip(text)
      signed == t # <<>> /\ Head(t) \in {"+", "-"}
      neg == t # <<>> /\ Head(t) = "-"
      body == IF signed THEN Tail(t) ELSE t
      low == LowerText(body)
  IN IF low = <<"n", "a", "n">> THEN NaN
     ELSE IF low = <<"i", "n", "f">>
             \/ low = <<"i", "n", "f", "i", "n", "i", "t", "y">>
          THEN (IF neg THEN NegInf ELSE PosInf)
     ELSE ParseDecimal(neg, body)

\* f"{value:.1f}"
Format1f(v) ==
  CASE v.k = "nan" -> <<"n", "a", "n">>
    [] v.k = "inf" -> <<"i", "n", "f">>
    [] v.k = "ninf" -> <<"-", "i", "n", "f">>
    [] OTHER ->
         LET mag == IF v.n < 0 THEN 0 - v.n ELSE v.n
         IN (IF v.n < 0 THEN <<"-">> ELSE <<>>)
            \o IntToDigits(mag \div 10) \o <<".">> \o <<Digits[(mag % 10) + 1]>>

\* The texts the user may leave in the entry box.
Inputs ==
  { <<>>, <<" ">>, <<"a", "b", "c">>, <<"-">>, <<".">>,
    <<"1", ".", "5", ".", "2">>,
    <<"-", "5">>, <<"-", "0", ".", "1">>, <<"1", "0", "0", ".", "1">>,
    <<"1", "0", "1">>,
    <<"0">>, <<"+", "7">>, <<".", "5">>, <<"5", ".">>,
    <<"1", "9", ".", "9">>, <<"2", "0">>, <<"2", "5">>, <<" ", "2", "5", " ">>,
    <<"3", "0">>, <<"3", "0", ".", "1">>, <<"6", "2", ".", "5">>,
    <<"1", "0", "0">>, <<"1", "0", "0", ".", "0">>,
    <<"i", "n", "f">>, <<"-", "i", "n", "f">>,
    <<"I", "n", "f", "i", "n", "i", "t", "y">>,
    <<"n", "a", "n">>, <<"N", "a", "N">>, <<"-", "n", "a", "n">> }

\* ----- Geometry -----
\* Sixtieths of a pixel per pixel.
Unit(px) == 60 * px

Min(a, b) == IF a < b THEN a ELSE b

\* width / 2
CenterX(w) == Unit(w) \div 2

\* height * GAUGE_VERTICAL_OFFSET, with GAUGE_VERTICAL_OFFSET = 0.65 = 13/20
CenterY(h) == (Unit(h) * 13) \div 20

\* min(width, height) / GAUGE_SIZE_RATIO
Radius(w, h) == Unit(Min(w, h)) \div GAUGE_SIZE_RATIO

\* 180 + (v - MIN_VALUE) * 180 / (MAX_VALUE - MIN_VALUE), in thousandths of
\* a degree, for a float v in tenths.  Arithmetic on a NaN yields NaN.
Angle(v) ==
  CASE v.k = "fin" ->
         Fin(180000 + ((v.n - 10 * MIN_VALUE) * 18000) \div (MAX_VALUE - MIN_VALUE))
    [] OTHER -> v

\* PointerAngle without the 180 degree start of the arc.
PointerAngleFromZero(v) ==
  CASE v.k = "fin" ->
         Fin(((v.n - 10 * MIN_VALUE) * 18000) \div (MAX_VALUE - MIN_VALUE))
    [] OTHER -> v

PointerAngle(v) == Angle(v)

\* The coordinate  base + rho * fn(radians(ang)).
Polar(base, rho, ang, fn) == [base |-> base, rho |-> rho, ang |-> ang, fn |-> fn]
Plain(x) == Polar(x, 0, Fin(0), "cos")

\* ----- Canvas items -----
Item(type, coords, fill, outline, lw, text, font) ==
  [type |-> type, coords |-> coords, fill |-> fill, outline |-> outline,
   width |-> lw, text |-> text, font |-> font]

\* NeedleColor with NORMAL_MIN itself classified as cold.
NeedleColorStrict(v) ==
  IF FloatLt(v, OfInt(NORMAL_MIN)) \/ v = OfInt(NORMAL_MIN) THEN COLOR_NEEDLE_COLD
  ELSE IF FloatGt(v, OfInt(NORMAL_MAX)) THEN COLOR_NEEDLE_HOT
  ELSE COLOR_NEEDLE_NORMAL

\* Needle color based on range
NeedleColor(v) ==
  IF FloatLt(v, OfInt(NORMAL_MIN)) THEN COLOR_NEEDLE_COLD
  ELSE IF FloatGt(v, OfInt(NORMAL_MAX)) THEN COLOR_NEEDLE_HOT
  ELSE COLOR_NEEDLE_NORMAL

ReadoutColor(v) == NeedleColor(v)

\* range(MIN_VALUE, MAX_VALUE + 1, TICK_INTERVAL)
TickValues ==
  [i \in 1..((MAX_VALUE - MIN_VALUE) \div TICK_INTERVAL + 1) |->
     MIN_VALUE + (i - 1) * TICK_INTERVAL]

ShadowItem(w, h) ==
  LET cx == CenterX(w)  cy == CenterY(h)  r == Radius(w, h)
  IN Item("oval",
          <<Plain(cx - r + Unit(SHADOW_OFFSET)), Plain(cy - r + Unit(SHADOW_OFFSET)),
            Plain(cx + r + Unit(SHADOW_OFFSET)), Plain(cy + r + Unit(SHADOW_OFFSET))>>,
          "", COLOR_SHADOW, SHADOW_THICKNESS, <<>>, "")

\* start=180, extent=180, style="arc"
ArcItem(w, h) ==
  LET cx == CenterX(w)  cy == CenterY(h)  r == Radius(w, h)
  IN Item("arc 180 180",
          <<Plain(cx - r), Plain(cy - r), Plain(cx + r), Plain(cy + r)>>,
          "", COLOR_GAUGE_OUTLINE, ARC_WIDTH, <<>>, "")

TickLine(w, h, val) ==
  LET cx == CenterX(w)  cy == CenterY(h)  r == Radius(w, h)
      a == Angle(OfInt(val))
  IN Item("line",
          <<Polar(cx, r - Unit(TICK_LENGTH), a, "cos"),
            Polar(cy, r - Unit(TICK_LENGTH), a, "sin"),
            Polar(cx, r, a, "cos"), Polar(cy, r, a, "sin")>>,
          COLOR_TICK, "", 2, <<>>, "")

TickLabel(w, h, val) ==
  LET cx == CenterX(w)  cy == CenterY(h)  r == Radius(w, h)
      a == Angle(OfInt(val))
  IN Item("text",
          <<Polar(cx, r - Unit(TICK_LENGTH) - Unit(LABEL_OFFSET), a, "cos"),
            Polar(cy, r - Unit(TICK_LENGTH) - Unit(LABEL_OFFSET), a, "sin")>>,
          COLOR_TEXT, "", 0, IntToDigits(val), FONT_LABEL)

RECURSIVE Ticks(_, _, _)
Ticks(w, h, i) ==
  IF i > Len(TickValues) THEN <<>>
  ELSE <<TickLine(w, h, TickValues[i]), TickLabel(w, h, TickValues[i])>>
       \o Ticks(w, h, i + 1)

NeedleItem(w, h, v) ==
  LET cx == CenterX(w)  cy == CenterY(h)  r == Radius(w, h)
      a == PointerAngle(v)
  IN Item("line",
          <<Plain(cx), Plain(cy),
            Polar(cx, r - Unit(NEEDLE_MARGIN), a, "cos"),
            Polar(cy, r - Unit(NEEDLE_MARGIN), a, "sin")>>,
          NeedleColor(v), "", 5, <<>>, "")

PivotItem(w, h) ==
  LET cx == CenterX(w)  cy == CenterY(h)
  IN Item("oval",
          <<Plain(cx - Unit(CENTER_CIRCLE_RADIUS)), Plain(cy - Unit(CENTER_CIRCLE_RADIUS)),
            Plain(cx + Unit(CENTER_CIRCLE_RADIUS)), Plain(cy + Unit(CENTER_CIRCLE_RADIUS))>>,
          "#111", "", 1, <<>>, "")

\* text=f"{self.value:.1f} (degree sign)C" ("deg" is the character U+00B0)
ReadoutItem(w, h, v) ==
  Item("text",
       <<Plain(CenterX(w)), Plain(CenterY(h) + Unit(VALUE_TEXT_OFFSET))>>,
       ReadoutColor(v), "", 0, Format1f(v) \o <<" ", "deg", "C">>, FONT_DISPLAY)

\* "Enter a number between 0-100!" ("endash" is the character U+2013)
ErrorText ==
  <<"E", "n", "t", "e", "r", " ", "a", " ", "n", "u", "m", "b", "e", "r", " ",
    "b", "e", "t", "w", "e", "e", "n", " ", "0", "endash", "1", "0", "0", "!">>

ErrorItem(w, h) ==
  Item("text", <<Plain(Unit(w) \div 2), Plain(Unit(h) \div 2)>>,
       COLOR_NEEDLE_HOT, "", 0, ErrorText, FONT_MAIN)

\* What draw_gauge appends to a canvas.
GaugeItems(w, h, v) ==
  <<ShadowItem(w, h), ArcItem(w, h)>> \o Ticks(w, h, 1)
  \o <<NeedleItem(w, h, v), PivotItem(w, h), ReadoutItem(w, h, v)>>

\* DeleteAll that leaves the items in place.
DeleteNone(cv) == cv

\* canvas.delete("all")
DeleteAll(cv) == <<>>

\* draw_gauge on canvas cv of size w x h with self.value = v
DrawGauge(cv, w, h, v) == DeleteAll(cv) \o GaugeItems(w, h, v)

\* The except ValueError branch of update_value
DrawError(cv, w, h) == DeleteAll(cv) \o <<ErrorItem(w, h)>>

\* ----- State -----
\* uncaught is the exception that escaped the last callback ("none" when it
\* returned normally).
VARIABLES value, canvas, width, height, entry, uncaught

vars == <<value, canvas, width, height, entry, uncaught>>

Widths == 1..MaxWidth
Heights == 1..MaxHeight

\* __init__: value 25, an empty entry, and a first draw_gauge on the not yet
\* mapped canvas, whose winfo_width() and winfo_height() are 1.
Init ==
  /\ value = OfInt(25)
  /\ entry = <<>>
  /\ width = 1
  /\ height = 1
  /\ canvas = DrawGauge(<<>>, 1, 1, OfInt(25))
  /\ uncaught = "none"

\* The user edits the entry box.
SetEntry(text) ==
  /\ entry' = text
  /\ UNCHANGED <<value, canvas, width, height, uncaught>>

\* OnResize that also puts the starting temperature back.
OnResizeReset(w, h) ==
  /\ width' = w
  /\ height' = h
  /\ value' = OfInt(25)
  /\ canvas' = DrawGauge(canvas, w, h, OfInt(25))
  /\ uncaught' = "none"
  /\ UNCHANGED entry

\* OnResize that does not redraw.
OnResizeSkipsDraw(w, h) ==
  /\ width' = w
  /\ height' = h
  /\ uncaught' = "none"
  /\ UNCHANGED <<value, canvas, entry>>

\* <Configure>: the canvas has its new size when on_resize runs.
OnResize(w, h) ==
  /\ width' = w
  /\ height' = h
  /\ canvas' = DrawGauge(canvas, w, h, value)
  /\ uncaught' = "none"
  /\ UNCHANGED <<value, entry>>

\* OutOfRange with the two bounds themselves out of range.
OutOfRangeStrict(val) ==
  \/ FloatLt(val, OfInt(MIN_VALUE)) \/ val = OfInt(MIN_VALUE)
  \/ FloatGt(val, OfInt(MAX_VALUE)) \/ val = OfInt(MAX_VALUE)

\* val < MIN_VALUE or val > MAX_VALUE
OutOfRange(val) == FloatLt(val, OfInt(MIN_VALUE)) \/ FloatGt(val, OfInt(MAX_VALUE))

\* The exception the try block of update_value raises on the text ("none"
\* when it runs to its end): float() fails, or the range check raises.
TryBlock(text) ==
  LET val == ParseFloat(text)
  IN IF val = ValueError THEN "ValueError"
     ELSE IF OutOfRange(val) THEN "ValueError"
     ELSE "none"

\* An except clause for another exception type.
HandlesTypeError(exc) == exc = "TypeError"

\* except ValueError
Handles(exc) == exc = "ValueError"

Rejected(text) == TryBlock(text) # "none"

\* UpdateValue that redraws before it stores the new value.
UpdateValueStale ==
  LET exc == TryBlock(entry)
      val == ParseFloat(entry)
  IN IF exc = "none"
     THEN /\ value' = val
          /\ canvas' = DrawGauge(canvas, width, height, value)
          /\ uncaught' = "none"
          /\ UNCHANGED <<width, height, entry>>
     ELSE IF Handles(exc)
     THEN /\ canvas' = DrawError(canvas, width, height)
          /\ uncaught' = "none"
          /\ UNCHANGED <<value, width, height, entry>>
     ELSE /\ uncaught' = exc
          /\ UNCHANGED <<value, canvas, width, height, entry>>

\* The button's command.
UpdateValue ==
  LET exc == TryBlock(entry)
      val == ParseFloat(entry)
  IN IF exc = "none"
     THEN /\ value' = val
          /\ canvas' = DrawGauge(canvas, width, height, val)
          /\ uncaught' = "none"
          /\ UNCHANGED <<width, height, entry>>
     ELSE IF Handles(exc)
     THEN /\ canvas' = DrawError(canvas, width, height)
          /\ uncaught' = "none"
          /\ UNCHANGED <<value, width, height, entry>>
     ELSE /\ uncaught' = exc
          /\ UNCHANGED <<value, canvas, width, height, entry>>

Resize == \E w \in Widths, h \in Heights : OnResize(w, h)

Type == \E text \in Inputs : SetEntry(text)

Next == Type \/ Resize \/ UpdateValue

Spec == Init /\ [][Next]_vars

\* ----- Properties -----
\* v is a number of [MIN_VALUE, MAX_VALUE]
InRange(v) == v.k = "fin" /\ 10 * MIN_VALUE <= v.n /\ v.n <= 10 * MAX_VALUE

\* The tenths of [MIN_VALUE, MAX_VALUE]
RangeTenths == (10 * MIN_VALUE)..(10 * MAX_VALUE)

\* The number of items of a drawn gauge: shadow, arc, a line and a label per
\* tick, needle, pivot and readout.
GaugeLen == 2 + 2 * Len(TickValues) + 3

\* The canvas holds a complete gauge, whatever its value.
IsGauge(cv) ==
  /\ Len(cv) = GaugeLen
  /\ \A i \in 1..Len(cv) : cv[i].text # ErrorText

NeedleOf(cv) == cv[Len(cv) - 2]
ReadoutOf(cv) == cv[Len(cv)]

\* The canvas shows the gauge of the current value at the current size.
ShowsGauge == canvas = GaugeItems(width, height, value)

\* The canvas shows the error message alone.
ShowsError == canvas = <<ErrorItem(width, height)>>

\* C1: in every reachable state, state.value is a number of
\* [MIN_VALUE, MAX_VALUE] = [0, 100].
C1_ValueInRange == InRange(value)

\* C2: an update whose text does not parse, or parses to a value outside
\* [MIN_VALUE, MAX_VALUE], leaves state.value as it was and leaves exactly the
\* error message on the canvas.
C2_RejectKeepsValue ==
  [][(UpdateValue /\ ~InRange(ParseFloat(entry)))
       => (value' = value /\ canvas' = <<ErrorItem(width, height)>>)]_vars

\* C3: an update whose text parses to a value v of [MIN_VALUE, MAX_VALUE], the
\* two bounds included, stores v and leaves the full gauge of v on the canvas:
\* the needle at the angle of v in the color of v, and no error message.
C3_AcceptInRange ==
  [][(UpdateValue /\ InRange(ParseFloat(entry)))
       => LET v == ParseFloat(entry)
          IN /\ value' = v
             /\ IsGauge(canvas')
             /\ canvas' = GaugeItems(width, height, v)
             /\ NeedleOf(canvas').coords[3].ang = PointerAngle(v)
             /\ NeedleOf(canvas').fill = NeedleColor(v)
             /\ uncaught' = "none"]_vars

\* The bound MAX_VALUE was typed, accepted and drawn.
C3_Witness ==
  /\ ParseFloat(entry) = OfInt(MAX_VALUE)
  /\ value = OfInt(MAX_VALUE)
  /\ ShowsGauge

\* C4: the needle angle is 180 + (v - MIN_VALUE) * 180 / (MAX_VALUE - MIN_VALUE):
\* 180 at 0, 360 at 100, 225 at 25, non-decreasing on [0, 100] and within
\* [180, 360] there; the needle on the canvas is drawn at that angle.
C4_AngleLinear ==
  /\ PointerAngle(OfInt(0)) = Fin(180000)
  /\ PointerAngle(OfInt(100)) = Fin(360000)
  /\ PointerAngle(OfInt(25)) = Fin(225000)
  /\ InRange(value) =>
       LET a == PointerAngle(value)
       IN /\ a.k = "fin"
          /\ 180000 <= a.n /\ a.n <= 360000
          /\ (a.n - 180000) * (MAX_VALUE - MIN_VALUE)
               = (value.n - 10 * MIN_VALUE) * 18000
          /\ \A w \in RangeTenths :
               /\ value.n <= w => a.n <= PointerAngle(Fin(w)).n
               /\ w <= value.n => PointerAngle(Fin(w)).n <= a.n
          /\ IsGauge(canvas) =>
               /\ NeedleOf(canvas).coords[3].ang = a
               /\ NeedleOf(canvas).coords[4].ang = a

\* A needle drawn for a value strictly inside the range and off the ticks.
C4_Witness ==
  /\ value = Fin(625)
  /\ IsGauge(canvas)
  /\ NeedleOf(canvas).coords[3].ang = Fin(292500)

\* C5: the needle color is cold below NORMAL_MIN, hot above NORMAL_MAX and
\* normal from NORMAL_MIN to NORMAL_MAX, both included; exactly one of the
\* three for every value of [0, 100]; the readout has the needle's color.
C5_ColorClasses ==
  /\ Cardinality({COLOR_NEEDLE_COLD, COLOR_NEEDLE_NORMAL, COLOR_NEEDLE_HOT}) = 3
  /\ \A n \in RangeTenths :
       NeedleColor(Fin(n)) =
         IF n < 10 * NORMAL_MIN THEN COLOR_NEEDLE_COLD
         ELSE IF n > 10 * NORMAL_MAX THEN COLOR_NEEDLE_HOT
         ELSE COLOR_NEEDLE_NORMAL
  /\ IsGauge(canvas) =>
       /\ NeedleOf(canvas).fill = ReadoutOf(canvas).fill
       /\ InRange(value) =>
            /\ value.n < 10 * NORMAL_MIN => NeedleOf(canvas).fill = COLOR_NEEDLE_COLD
            /\ value.n > 10 * NORMAL_MAX => NeedleOf(canvas).fill = COLOR_NEEDLE_HOT
            /\ (10 * NORMAL_MIN <= value.n /\ value.n <= 10 * NORMAL_MAX)
                 => NeedleOf(canvas).fill = COLOR_NEEDLE_NORMAL

\* The gauge drawn for the lower bound of the normal range.
C5_Witness ==
  /\ value = OfInt(NORMAL_MIN)
  /\ IsGauge(canvas)
  /\ NeedleOf(canvas).fill = COLOR_NEEDLE_NORMAL
  /\ ReadoutOf(canvas).fill = COLOR_NEEDLE_NORMAL

\* C6: a resize never changes state.value and redraws the needle at the angle
\* and in the color of that value; state.value changes only in an accepted
\* update.
C6_ResizeKeepsValue ==
  [][/\ Resize =>
          /\ value' = value
          /\ IsGauge(canvas')
          /\ NeedleOf(canvas').coords[3].ang = PointerAngle(value)
          /\ NeedleOf(canvas').fill = NeedleColor(value)
     /\ value' # value => (UpdateValue /\ ~Rejected(entry))]_vars

\* A gauge redrawn at another size for a value that is not the starting one.
C6_Witness ==
  /\ width # 1
  /\ height # 1
  /\ value = Fin(199)
  /\ ShowsGauge

\* C7: what render leaves on the canvas depends only on (width, height,
\* value), not on what was there: rendering again changes nothing, and items
\* never accumulate.
C7_RenderIdempotent ==
  /\ DrawGauge(canvas, width, height, value) = DrawGauge(<<>>, width, height, value)
  /\ DrawGauge(DrawGauge(canvas, width, height, value), width, height, value)
       = DrawGauge(canvas, width, height, value)
  /\ DrawError(canvas, width, height) = DrawError(<<>>, width, height)
  /\ Len(canvas) <= GaugeLen
  /\ Len(canvas) > 1 => canvas = DrawGauge(<<>>, width, height, value)

\* A gauge rendered at the largest size over an earlier rendering.
C7_Witness ==
  /\ width = MaxWidth
  /\ height = MaxHeight
  /\ Len(canvas) = GaugeLen

\* C8: while the error message is shown, editing the entry keeps it; the next
\* resize replaces it with the gauge of the value stored before the rejected
\* input; the next accepted update replaces it with the gauge of the new value;
\* a further rejected update keeps the error message and the value.
C8_ErrorUntilNextRender ==
  [][ShowsError =>
       /\ Type => (canvas' = canvas /\ value' = value)
       /\ Resize => (value' = value /\ canvas' = GaugeItems(width', height', value))
       /\ (UpdateValue /\ ~Rejected(entry)) =>
            canvas' = GaugeItems(width, height, ParseFloat(entry))
       /\ (UpdateValue /\ Rejected(entry)) =>
            (value' = value /\ canvas' = <<ErrorItem(width, height)>>)]_vars

\* The error message shown for a rejected text after an accepted update.
C8_Witness ==
  /\ ShowsError
  /\ Rejected(entry)
  /\ value = OfInt(NORMAL_MAX)

\* C9: update_value never lets an exception escape: for every text it ends
\* either with the value stored and the gauge drawn, or with the error message.
C9_NoEscape ==
  [][UpdateValue =>
       /\ uncaught' = "none"
       /\ \/ (value' = ParseFloat(entry) /\ ShowsGauge')
          \/ (value' = value /\ ShowsError')]_vars

\* A rejected out-of-range number ended in the error message.
C9_Witness ==
  /\ ParseFloat(entry) = PosInf
  /\ ShowsError
  /\ uncaught = "none"

\* C10: the canvas always shows either the full gauge of the current
\* state.value at the current size, or the error message alone; never both,
\* and never nothing.
C10_DisplayConsistent ==
  /\ canvas # <<>>
  /\ ShowsGauge \/ ShowsError
  /\ ~(ShowsGauge /\ ShowsError)
  /\ (\E i \in 1..Len(canvas) : canvas[i].text = ErrorText) => Len(canvas) = 1
  /\ ShowsGauge =>
       /\ IsGauge(canvas)
       /\ NeedleOf(canvas).coords[3].ang = PointerAngle(value)
       /\ NeedleOf(canvas).fill = NeedleColor(value)
       /\ ReadoutOf(canvas).text = Format1f(value) \o <<" ", "deg", "C">>

\* The gauge of a hot value typed after the start.
C10_Witness ==
  /\ ShowsGauge
  /\ value = Fin(301)
  /\ ReadoutOf(canvas).text = <<"3", "0", ".", "1", " ", "deg", "C">>

====
